---- MODULE Spec2Model ----
(***************************************************************************)
(* Model of the CPU scheduling simulator of os1.py: the Process record,    *)
(* the five Scheduler subclasses (FCFS, SJF, Priority, RoundRobin, SRTF),  *)
(* and the two metrics functions.  One action per loop iteration of each   *)
(* run() method; the lists of Process objects are sequences of indices     *)
(* into `processes`, because Python lists hold references to the shared,   *)
(* mutable Process objects.                                                *)
(***************************************************************************)
EXTENDS Integers, Sequences, FiniteSets, TLC

\* ------------------------------------------------------------------ bounds
MaxJobs == 2
MaxArrival == 2
MaxBurst == 3
MaxPriority == 2
MaxQuantum == 2
\* Cap on the dispatches of one job (only a run with a non-positive quantum,
\* which never ends, gets there).
MaxDispatches == 8

\* ------------------------------------------------------- optional values
\* Python's None / a set value: the empty tuple and a one-element tuple.
None == <<>>

Some(v) == <<v>>

Val(x) == x[1]

\* ---------------------------------------------------------------- Process
Process(process_id, arrival_time, burst_time, priority) ==
    [process_id      |-> process_id,
     arrival_time    |-> arrival_time,
     burst_time      |-> burst_time,
     priority        |-> priority,
     start_time      |-> None,
     completion_time |-> None]

Policies == {"FCFS", "SJF", "Priority", "RoundRobin", "SRTF"}

\* generate_random_processes: ids 1..n, arrival and burst drawn from their
\* ranges, and a priority only when a priority range is given (the driver
\* gives one for Priority scheduling only).
PriorityChoices(pol) ==
    IF pol = "Priority" THEN {Some(v) : v \in 1..MaxPriority} ELSE {None}

Draws(pol, n) ==
    [1..n -> (0..MaxArrival) \X (1..MaxBurst) \X PriorityChoices(pol)]

generate_random_processes(n, f) ==
    [i \in 1..n |-> Process(i, f[i][1], f[i][2], f[i][3])]

\* The worked scenarios: P1(0,5), P2(1,3), P3(2,8) and P1(0,5), P2(1,3).
ScenarioPriority(pol, v) == IF pol = "Priority" THEN Some(v) ELSE None

Scenario3(pol) ==
    <<Process(1, 0, 5, ScenarioPriority(pol, 2)),
      Process(2, 1, 3, ScenarioPriority(pol, 1)),
      Process(3, 2, 8, ScenarioPriority(pol, 1))>>

Scenario2(pol) ==
    <<Process(1, 0, 5, ScenarioPriority(pol, 2)),
      Process(2, 1, 3, ScenarioPriority(pol, 1))>>

Scenarios(pol) == {Scenario3(pol), Scenario2(pol)}

Quanta(pol) == IF pol = "RoundRobin" THEN {Some(q) : q \in 1..MaxQuantum} ELSE {None}

\* ------------------------------------------------------------------ state
VARIABLES
    policy,               \* which Scheduler subclass is running
    time_quantum,         \* RoundRobin.time_quantum (None for the others)
    input,                \* the caller's values at construction (history)
    processes,            \* the Process objects, by position in self.processes
    remaining_processes,  \* local list of run(): indices of Process objects
    current_time,         \* local clock of run()
    completed_processes,  \* self.completed_processes: indices, in append order
    pc,                   \* "run", "done", "reported", "ZeroDivisionError", "TypeError"
    first_dispatch,       \* history: clock at the first dispatch of each job
    rendered,             \* history: sequence of durations rendered per job
    avg_waiting_time,     \* result of calculate_average_waiting_time
    avg_turnaround_time   \* result of calculate_average_turnaround_time

vars == <<policy, time_quantum, input, processes, remaining_processes,
          current_time, completed_processes, pc, first_dispatch, rendered,
          avg_waiting_time, avg_turnaround_time>>

Indices == DOMAIN processes

\* ---------------------------------------------------------------- helpers
\* Mutation: the clock is never moved forward to the arrival time.
ClampNoWait(t, a) == t

\* Mutation: the clock is set to the arrival time unconditionally.
ClampToArrival(t, a) == a

\* Mutation: the comparison of the clock with the arrival time reversed.
ClampBackwards(t, a) == IF t > a THEN a ELSE t

\* `if current_time < process.arrival_time: current_time = process.arrival_time`
Clamp(t, a) == IF t < a THEN a ELSE t

\* Mutation: the clock is not advanced by the rendered duration.
RunForNoAdvance(t, d) == t

\* `current_time += process.burst_time`
RunFor(t, d) == t + d

\* Python tuple comparison of two 2-tuples of integers.
TupleLess(k1, k2) == k1[1] < k2[1] \/ (k1[1] = k2[1] /\ k1[2] < k2[2])

\* Mutation: the key components swapped (earliest arrival first).
ArrivalFirstKey(p) == <<p.arrival_time, p.burst_time>>

\* key=lambda x: (x.burst_time, x.arrival_time)
SJFKey(p) == <<p.burst_time, p.arrival_time>>

\* Tuple comparison raises TypeError when it has to order None against an
\* int: a sort of two or more jobs raises exactly when some priorities are
\* None and some are not (None == None is true, and the comparison then
\* moves on to the arrival times).
SortRaises(s, procs) ==
    \E k, l \in 1..Len(s) :
        procs[s[k]].priority = None /\ procs[s[l]].priority # None

\* key=lambda x: (x.priority, x.arrival_time); in a list whose priorities
\* are all None the first components are all equal.
PriorityKey(p) ==
    <<IF p.priority = None THEN 0 ELSE Val(p.priority), p.arrival_time>>

\* Mutation: x is inserted in front of the elements of equal key (a sort
\* that is not stable).
RECURSIVE InsertSortedUnstable(_, _, _)
InsertSortedUnstable(x, s, key) ==
    IF s = <<>> THEN <<x>>
    ELSE IF ~TupleLess(key[Head(s)], key[x]) THEN <<x>> \o s
    ELSE <<Head(s)>> \o InsertSortedUnstable(x, Tail(s), key)

\* Insert index x into the key-sorted sequence s behind every element whose
\* key is not greater (list.sort is stable).
RECURSIVE InsertSorted(_, _, _)
InsertSorted(x, s, key) ==
    IF s = <<>> THEN <<x>>
    ELSE IF TupleLess(key[x], key[Head(s)]) THEN <<x>> \o s
    ELSE <<Head(s)>> \o InsertSorted(x, Tail(s), key)

\* list.sort(key=...): stable, ascending by key.
RECURSIVE SortBy(_, _)
SortBy(s, key) ==
    IF s = <<>> THEN <<>>
    ELSE InsertSorted(s[Len(s)], SortBy(SubSeq(s, 1, Len(s) - 1), key), key)

\* Mutation: the comparison with the quantum made non-strict.
AtLeastQuantum(b, q) == b >= q

\* `if process.burst_time > self.time_quantum`
ExceedsQuantum(b, q) == b > q

\* Mutation: the preempted job's burst_time is not decremented.
PreemptedNoDecrement(b, q) == b

\* `process.burst_time -= self.time_quantum`
Preempted(b, q) == b - q

\* Mutation: a job arriving exactly at the new clock value is not discounted.
HasArrivedStrictly(a, t) == a < t

\* `if p.arrival_time <= current_time`
HasArrived(a, t) == a <= t

\* `[p for p in remaining_processes if p.burst_time > 0]`
StillRemaining(b) == b > 0

\* History bookkeeping shared by all dispatches: the clock at the first
\* dispatch of job p and the duration this dispatch renders.
Dispatched(p, t, d) ==
    /\ first_dispatch' = [first_dispatch EXCEPT
                            ![p] = IF @ = None THEN Some(t) ELSE @]
    /\ rendered' = [rendered EXCEPT ![p] = Append(@, d)]

\* ------------------------------------------------------------------- Init
\* Scheduler.__init__ / RoundRobin.__init__ followed by the first two
\* statements of run(): the copy of self.processes and current_time = 0.
InitWith(pol, procs, q) ==
    /\ policy = pol
    /\ time_quantum = q
    /\ input = procs
    /\ processes = procs
    /\ remaining_processes = [i \in 1..Len(procs) |-> i]
    /\ current_time = 0
    /\ completed_processes = <<>>
    /\ pc = "run"
    /\ first_dispatch = [i \in DOMAIN procs |-> None]
    /\ rendered = [i \in DOMAIN procs |-> <<>>]
    /\ avg_waiting_time = None
    /\ avg_turnaround_time = None

Init ==
    \E pol \in Policies : \E q \in Quanta(pol) :
        \/ \E n \in 0..MaxJobs : \E f \in Draws(pol, n) :
              InitWith(pol, generate_random_processes(n, f), q)
        \/ \E procs \in Scenarios(pol) : InitWith(pol, procs, q)

\* ---------------------------------------------------------------- actions
\* Run the job p to completion from clock t (the four statements shared by
\* FCFS, SJF, Priority and SRTF).
RunToCompletion(p, procs) ==
    LET t == Clamp(current_time, procs[p].arrival_time)
        c == RunFor(t, procs[p].burst_time)
    IN  /\ current_time' = c
        /\ completed_processes' = Append(completed_processes, p)
        /\ Dispatched(p, t, procs[p].burst_time)

Started(procs, p) ==
    LET t == Clamp(current_time, procs[p].arrival_time)
    IN  [procs EXCEPT ![p].start_time = Some(t),
                      ![p].completion_time = Some(RunFor(t, procs[p].burst_time))]

\* FCFS.run as a function of the input list: the Process objects after the
\* loop has visited positions k.. from clock t.
RECURSIVE FCFSRun(_, _, _)
FCFSRun(procs, k, t) ==
    IF k > Len(procs) THEN procs
    ELSE LET begin == Clamp(t, procs[k].arrival_time)
             end == RunFor(begin, procs[k].burst_time)
         IN  FCFSRun([procs EXCEPT ![k].start_time = Some(begin),
                                   ![k].completion_time = Some(end)],
                     k + 1, end)

\* Mutation: FCFS re-sorts the unvisited jobs by arrival time.
FCFSStepByArrival ==
    /\ pc = "run" /\ policy = "FCFS" /\ remaining_processes # <<>>
    /\ LET sorted == SortBy(remaining_processes,
                            [i \in Indices |-> ArrivalFirstKey(processes[i])])
           p == Head(sorted)
       IN  /\ processes' = Started(processes, p)
           /\ RunToCompletion(p, processes)
           /\ remaining_processes' = Tail(sorted)
    /\ UNCHANGED <<policy, time_quantum, input, pc,
                   avg_waiting_time, avg_turnaround_time>>

\* FCFS.run: one iteration of `for process in self.processes`;
\* remaining_processes holds the positions the iterator has not visited.
FCFSStep ==
    /\ pc = "run" /\ policy = "FCFS" /\ remaining_processes # <<>>
    /\ LET p == Head(remaining_processes)
       IN  /\ processes' = Started(processes, p)
           /\ RunToCompletion(p, processes)
           /\ remaining_processes' = Tail(remaining_processes)
    /\ UNCHANGED <<policy, time_quantum, input, pc,
                   avg_waiting_time, avg_turnaround_time>>

\* SJF.run: one iteration of `while remaining_processes`.
SJFStep ==
    /\ pc = "run" /\ policy = "SJF" /\ remaining_processes # <<>>
    /\ LET sorted == SortBy(remaining_processes,
                            [i \in Indices |-> SJFKey(processes[i])])
           p == Head(sorted)
       IN  /\ processes' = Started(processes, p)
           /\ RunToCompletion(p, processes)
           /\ remaining_processes' = Tail(sorted)
    /\ UNCHANGED <<policy, time_quantum, input, pc,
                   avg_waiting_time, avg_turnaround_time>>

\* Priority.run: one iteration of `while remaining_processes`.
PriorityStep ==
    /\ pc = "run" /\ policy = "Priority" /\ remaining_processes # <<>>
    /\ IF SortRaises(remaining_processes, processes)
       THEN /\ pc' = "TypeError"
            /\ UNCHANGED <<processes, remaining_processes, current_time,
                           completed_processes, first_dispatch, rendered>>
       ELSE /\ LET sorted == SortBy(remaining_processes,
                                    [i \in Indices |-> PriorityKey(processes[i])])
                   p == Head(sorted)
               IN  /\ processes' = Started(processes, p)
                   /\ RunToCompletion(p, processes)
                   /\ remaining_processes' = Tail(sorted)
            /\ UNCHANGED pc
    /\ UNCHANGED <<policy, time_quantum, input,
                   avg_waiting_time, avg_turnaround_time>>

\* RoundRobin.run: one iteration of `while remaining_processes`.
RoundRobinStep ==
    /\ pc = "run" /\ policy = "RoundRobin" /\ remaining_processes # <<>>
    /\ Len(rendered[Head(remaining_processes)]) < MaxDispatches
    /\ LET p == Head(remaining_processes)
           q == Val(time_quantum)
           t == Clamp(current_time, processes[p].arrival_time)
           b == processes[p].burst_time
       IN  IF ExceedsQuantum(b, q)
           THEN /\ current_time' = RunFor(t, q)
                /\ processes' = [processes EXCEPT ![p].start_time = Some(t),
                                                  ![p].burst_time = Preempted(b, q)]
                /\ remaining_processes' = Append(Tail(remaining_processes), p)
                /\ Dispatched(p, t, q)
                /\ UNCHANGED completed_processes
           ELSE /\ current_time' = RunFor(t, b)
                /\ processes' = [processes EXCEPT
                                   ![p].start_time = Some(t),
                                   ![p].completion_time = Some(RunFor(t, b))]
                /\ remaining_processes' = Tail(remaining_processes)
                /\ Dispatched(p, t, b)
                /\ completed_processes' = Append(completed_processes, p)
    /\ UNCHANGED <<policy, time_quantum, input, pc,
                   avg_waiting_time, avg_turnaround_time>>

\* The `for p in remaining_processes` loop of SRTF.run: every other job
\* that has arrived by clock c loses d units of burst_time.
Discounted(procs, rest, c, d) ==
    [i \in DOMAIN procs |->
        IF (\E k \in 1..Len(rest) : rest[k] = i) /\ HasArrived(procs[i].arrival_time, c)
        THEN [procs[i] EXCEPT !.burst_time = @ - d]
        ELSE procs[i]]

\* SRTF.run: one iteration of `while remaining_processes`.
SRTFStep ==
    /\ pc = "run" /\ policy = "SRTF" /\ remaining_processes # <<>>
    /\ LET sorted == SortBy(remaining_processes,
                            [i \in Indices |-> SJFKey(processes[i])])
           p == Head(sorted)
           rest == Tail(sorted)
           started == Started(processes, p)
           c == Val(started[p].completion_time)
           after == Discounted(started, rest, c, started[p].burst_time)
       IN  /\ RunToCompletion(p, processes)
           /\ processes' = after
           /\ remaining_processes' =
                 SelectSeq(rest, LAMBDA i : StillRemaining(after[i].burst_time))
    /\ UNCHANGED <<policy, time_quantum, input, pc,
                   avg_waiting_time, avg_turnaround_time>>

\* The loop condition is false: run() returns.
Return ==
    /\ pc = "run" /\ remaining_processes = <<>>
    /\ pc' = "done"
    /\ UNCHANGED <<policy, time_quantum, input, processes, remaining_processes,
                   current_time, completed_processes, first_dispatch, rendered,
                   avg_waiting_time, avg_turnaround_time>>

\* sum(f(process) for process in s)
RECURSIVE SumOver(_, _)
SumOver(s, f) == IF s = <<>> THEN 0 ELSE f[Head(s)] + SumOver(Tail(s), f)

WaitingTime(p) == Val(p.start_time) - p.arrival_time

TurnaroundTime(p) == Val(p.completion_time) - p.arrival_time

\* The quotient sum / len as the pair <<numerator, denominator>>.
calculate_average_waiting_time(s, procs) ==
    <<SumOver(s, [i \in DOMAIN procs |-> WaitingTime(procs[i])]), Len(s)>>

calculate_average_turnaround_time(s, procs) ==
    <<SumOver(s, [i \in DOMAIN procs |-> TurnaroundTime(procs[i])]), Len(s)>>

\* The driver's two metrics calls on get_completed_processes(); the first
\* division by len(processes) = 0 raises ZeroDivisionError.
ComputeMetrics ==
    /\ pc = "done"
    /\ IF Len(completed_processes) = 0
       THEN /\ pc' = "ZeroDivisionError"
            /\ UNCHANGED <<avg_waiting_time, avg_turnaround_time>>
       ELSE /\ pc' = "reported"
            /\ avg_waiting_time' =
                 calculate_average_waiting_time(completed_processes, processes)
            /\ avg_turnaround_time' =
                 calculate_average_turnaround_time(completed_processes, processes)
    /\ UNCHANGED <<policy, time_quantum, input, processes, remaining_processes,
                   current_time, completed_processes, first_dispatch, rendered>>

Next ==
    \/ FCFSStep
    \/ SJFStep
    \/ PriorityStep
    \/ RoundRobinStep
    \/ SRTFStep
    \/ Return
    \/ ComputeMetrics

Spec == Init /\ [][Next]_vars

\* Input that breaks the contract of run(): a negative arrival time, a
\* non-positive burst time, a non-positive quantum for RoundRobin, or a job
\* without priority for Priority.
Malformed(pol, procs, q) ==
    \/ \E i \in DOMAIN procs :
          procs[i].arrival_time < 0 \/ procs[i].burst_time <= 0
    \/ pol = "RoundRobin" /\ Val(q) <= 0
    \/ pol = "Priority" /\ \E i \in DOMAIN procs : procs[i].priority = None

MalformedDraws(pol, n) ==
    [1..n -> (-1..1) \X (-1..MaxBurst)
               \X (PriorityChoices(pol) \cup {None})]

MalformedQuanta(pol) ==
    IF pol = "RoundRobin" THEN {Some(q) : q \in -1..MaxQuantum} ELSE {None}

InitMalformed ==
    \E pol \in Policies : \E q \in MalformedQuanta(pol) :
        \E n \in 0..MaxJobs : \E f \in MalformedDraws(pol, n) :
            /\ Malformed(pol, generate_random_processes(n, f), q)
            /\ InitWith(pol, generate_random_processes(n, f), q)

SpecMalformed == InitMalformed /\ [][Next]_vars

\* The inputs of the termination check: every burst time and quantum of the
\* bounds, with the arrival times and priorities at the ends of their ranges
\* (termination depends on the arrival time and the priority only through
\* the order of dispatch).
FairDraws(pol, n) ==
    [1..n -> {0, MaxArrival} \X (1..MaxBurst)
               \X (PriorityChoices(pol) \ {Some(v) : v \in 2..MaxPriority - 1})]

InitFair ==
    \E pol \in Policies : \E q \in Quanta(pol) :
        \/ \E n \in 0..MaxJobs : \E f \in FairDraws(pol, n) :
              InitWith(pol, generate_random_processes(n, f), q)
        \/ \E procs \in Scenarios(pol) : InitWith(pol, procs, q)

\* run() and the driver are straight-line, single-threaded code: a step that
\* is possible is taken.
FairSpec == InitFair /\ [][Next]_vars /\ WF_vars(Next)

\* ------------------------------------------------------------ type sanity
TypeOK ==
    /\ policy \in Policies
    /\ pc \in {"run", "done", "reported", "ZeroDivisionError", "TypeError"}
    /\ current_time \in Nat
    /\ \A k \in 1..Len(completed_processes) : completed_processes[k] \in Indices
    /\ \A k \in 1..Len(remaining_processes) : remaining_processes[k] \in Indices

\* ------------------------------------------------- vocabulary of the claims
Finished == pc # "run"

InSeq(s, x) == \E k \in 1..Len(s) : s[k] = x

Max(a, b) == IF a >= b THEN a ELSE b

NonPreemptive == {"FCFS", "SJF", "Priority"}

\* The job appended by the current step, when the step appends one.
Appends == Len(completed_processes') = Len(completed_processes) + 1

Appended == completed_processes'[Len(completed_processes')]

RECURSIVE SumSeq(_)
SumSeq(s) == IF s = <<>> THEN 0 ELSE Head(s) + SumSeq(Tail(s))

\* ----------------------------------------------------------------- claims
\* C1: for each of the five policies, when run() finishes the completed
\* sequence is a permutation of the input jobs: each input job appears in it
\* exactly once and the lengths agree.
C1_CompletedIsPermutation ==
    Finished =>
        /\ Len(completed_processes) = Len(input)
        /\ \A i \in Indices :
             Cardinality({k \in 1..Len(completed_processes) :
                             completed_processes[k] = i}) = 1

\* C2: for each of the five policies, every job in the completed sequence
\* has completion time >= start time >= arrival time when run() finishes.
C2_TimesOrdered ==
    Finished =>
        \A k \in 1..Len(completed_processes) :
            LET p == processes[completed_processes[k]]
            IN  /\ p.start_time # None /\ p.completion_time # None
                /\ Val(p.completion_time) >= Val(p.start_time)
                /\ Val(p.start_time) >= p.arrival_time

C2_Witness ==
    /\ pc = "done"
    /\ Len(completed_processes) >= 2
    /\ \E k \in 1..Len(completed_processes) :
          LET p == processes[completed_processes[k]]
          IN  Val(p.start_time) > p.arrival_time /\ p.arrival_time > 0

\* C3: under RoundRobin a job's start time after run() is the clock value at
\* its first dispatch; re-dispatches of a requeued job do not change it.
C3_StartIsFirstDispatch ==
    (policy = "RoundRobin" /\ Finished) =>
        \A i \in Indices : processes[i].start_time = first_dispatch[i]

\* C4: for FCFS, SJF and Priority every completed job has completion time =
\* start time + original service time, hence turnaround = waiting + service
\* for every job, and the sums behind the two averages obey the same identity.
C4_CompletionIsStartPlusService ==
    policy \in NonPreemptive =>
        /\ \A k \in 1..Len(completed_processes) :
             LET i == completed_processes[k]
                 p == processes[i]
             IN  /\ Val(p.completion_time) = Val(p.start_time) + input[i].burst_time
                 /\ TurnaroundTime(p) = WaitingTime(p) + input[i].burst_time
        /\ pc = "reported" =>
             /\ avg_turnaround_time[1] =
                  avg_waiting_time[1]
                  + SumOver(completed_processes,
                            [i \in Indices |-> input[i].burst_time])
             /\ avg_turnaround_time[2] = avg_waiting_time[2]
             /\ avg_waiting_time[2] = Len(input)

C4_Witness ==
    /\ policy \in NonPreemptive
    /\ pc = "reported"
    /\ Len(completed_processes) >= 2
    /\ avg_waiting_time[1] > 0

\* C5: under RoundRobin with quantum q > 0 the durations rendered over all
\* dispatches of a job sum to its original service time, every non-final
\* dispatch renders exactly q (the clock moves from max(clock, arrival) to
\* that plus q), the final dispatch renders the remaining amount (at most q),
\* and a job is requeued to the back of the FIFO exactly when its remaining
\* time strictly exceeds q.
C5_RenderedDurations ==
    \A i \in Indices :
        LET r == rendered[i]
            q == Val(time_quantum)
            done == InSeq(completed_processes, i)
        IN  /\ done => SumSeq(r) = input[i].burst_time
            /\ ~done => SumSeq(r) + processes[i].burst_time = input[i].burst_time
            /\ \A k \in 1..Len(r) : (k < Len(r) \/ ~done) => r[k] = q
            /\ (done /\ r # <<>>) => (r[Len(r)] <= q /\ r[Len(r)] > 0)

C5_RequeueRule ==
    remaining_processes # <<>> =>
        LET p == Head(remaining_processes)
            q == Val(time_quantum)
            t == Max(current_time, processes[p].arrival_time)
        IN  IF processes[p].burst_time > q
            THEN /\ current_time' = t + q
                 /\ remaining_processes' = Append(Tail(remaining_processes), p)
                 /\ completed_processes' = completed_processes
            ELSE /\ current_time' = t + processes[p].burst_time
                 /\ remaining_processes' = Tail(remaining_processes)
                 /\ completed_processes' = Append(completed_processes, p)

C5_RoundRobinQuantum ==
    /\ [](policy = "RoundRobin" => C5_RenderedDurations)
    /\ [][(policy = "RoundRobin" /\ pc = "run") => C5_RequeueRule]_vars

C5_Witness ==
    /\ policy = "RoundRobin" /\ pc = "done"
    /\ \E i \in Indices : Len(rendered[i]) >= 3
    /\ \E i \in Indices :
          Len(rendered[i]) >= 2 /\ rendered[i][Len(rendered[i])] = Val(time_quantum)

\* C6: arrival time, service time and priority of every input job are the
\* caller's values after run(), for all five policies.
C6_StaticAttributesUnchanged ==
    Finished =>
        \A i \in Indices :
            /\ processes[i].arrival_time = input[i].arrival_time
            /\ processes[i].burst_time = input[i].burst_time
            /\ processes[i].priority = input[i].priority

\* C7: in every state of a RoundRobin or SRTF run every job's remaining
\* service time is >= 0, and a job is in the completed sequence if and only
\* if its remaining service time is 0.
C7_RemainingZeroIffCompleted ==
    policy \in {"RoundRobin", "SRTF"} =>
        \A i \in Indices :
            /\ processes[i].burst_time >= 0
            /\ InSeq(completed_processes, i) <=> processes[i].burst_time = 0

\* C8: for every policy the completed sequence is append-only and ordered by
\* completion: a job is appended at the step that sets its completion time,
\* appended entries are never removed or reordered, and completion times are
\* non-decreasing along the sequence.
C8_OrderedByCompletion ==
    \A k \in 1..Len(completed_processes) - 1 :
        Val(processes[completed_processes[k]].completion_time)
            <= Val(processes[completed_processes[k + 1]].completion_time)

C8_AppendStep ==
    /\ Len(completed_processes') >= Len(completed_processes)
    /\ Len(completed_processes') <= Len(completed_processes) + 1
    /\ SubSeq(completed_processes', 1, Len(completed_processes)) = completed_processes
    /\ \A i \in Indices :
          (processes'[i].completion_time # processes[i].completion_time)
             <=> (Appends /\ Appended = i)
    /\ Appends => processes'[Appended].completion_time = Some(current_time')

C8_AppendOnly ==
    /\ []C8_OrderedByCompletion
    /\ [][C8_AppendStep]_vars

C8_Witness ==
    /\ pc = "done"
    /\ Len(completed_processes) >= 2
    /\ completed_processes[1] > completed_processes[2]

\* C9: FCFS never reorders: for every input list, sorted by arrival or not,
\* the completed sequence is the input list in order, the k-th job starts at
\* max(completion of job k-1 (0 for the first), its arrival) and completes at
\* start + service; P1(0,5), P2(1,3), P3(2,8) gives 0->5, 5->8, 8->16.
C9_FCFSKeepsInputOrder ==
    (policy = "FCFS" /\ Finished) =>
        /\ completed_processes = [k \in 1..Len(input) |-> k]
        /\ \A k \in 1..Len(input) :
             LET prev == IF k = 1 THEN 0 ELSE Val(processes[k - 1].completion_time)
             IN  /\ processes[k].start_time = Some(Max(prev, input[k].arrival_time))
                 /\ processes[k].completion_time =
                       Some(Val(processes[k].start_time) + input[k].burst_time)
        /\ input = Scenario3("FCFS") =>
             /\ <<processes[1].start_time, processes[1].completion_time>>
                   = <<Some(0), Some(5)>>
             /\ <<processes[2].start_time, processes[2].completion_time>>
                   = <<Some(5), Some(8)>>
             /\ <<processes[3].start_time, processes[3].completion_time>>
                   = <<Some(8), Some(16)>>

C9_Witness ==
    /\ policy = "FCFS" /\ pc = "done"
    /\ Len(input) >= 2
    /\ input[1].arrival_time > input[2].arrival_time
    /\ Val(processes[1].completion_time) > input[1].arrival_time

\* C10: at every iteration SJF dispatches a job minimising (service time,
\* arrival time), and Priority one minimising (priority, arrival time), over
\* all not-yet-dispatched jobs, arrived or not; the clock jumps to
\* max(clock, arrival) and the job runs to completion.  SJF on P1(0,5),
\* P2(1,3), P3(2,8) gives P2 1->4, P1 4->9, P3 9->17.
C10_SelectionStep ==
    (policy \in {"SJF", "Priority"} /\ Appends) =>
        LET p == Appended
            keyOf(i) == IF policy = "SJF"
                        THEN <<input[i].burst_time, input[i].arrival_time>>
                        ELSE <<Val(input[i].priority), input[i].arrival_time>>
            t == Max(current_time, input[p].arrival_time)
        IN  /\ InSeq(remaining_processes, p)
            /\ \A k \in 1..Len(remaining_processes) :
                  LET r == remaining_processes[k]
                  IN  \/ keyOf(p)[1] < keyOf(r)[1]
                      \/ keyOf(p)[1] = keyOf(r)[1] /\ keyOf(p)[2] <= keyOf(r)[2]
            /\ processes'[p].start_time = Some(t)
            /\ processes'[p].completion_time = Some(t + input[p].burst_time)
            /\ current_time' = t + input[p].burst_time
            /\ ~InSeq(remaining_processes', p)

C10_SJFScenario ==
    (policy = "SJF" /\ Finished /\ input = Scenario3("SJF")) =>
        /\ completed_processes = <<2, 1, 3>>
        /\ <<processes[2].start_time, processes[2].completion_time>>
              = <<Some(1), Some(4)>>
        /\ <<processes[1].start_time, processes[1].completion_time>>
              = <<Some(4), Some(9)>>
        /\ <<processes[3].start_time, processes[3].completion_time>>
              = <<Some(9), Some(17)>>

C10_NonCausalSelection ==
    /\ []C10_SJFScenario
    /\ [][C10_SelectionStep]_vars

C10_Witness ==
    /\ policy = "SJF"
    /\ Len(completed_processes) = 1
    /\ LET p == processes[completed_processes[1]]
       IN  /\ p.arrival_time > 0
           /\ p.start_time = Some(p.arrival_time)
           /\ \E k \in 1..Len(remaining_processes) :
                 processes[remaining_processes[k]].arrival_time = 0

\* C11: every run() terminates on well-formed input: FCFS, SJF and Priority
\* complete exactly one job per iteration, SRTF removes at least one job from
\* the remaining set per iteration, and under RoundRobin the remaining
\* service of the queued jobs strictly decreases, so the remaining set
\* eventually becomes empty and run() returns.
RemainingService ==
    SumOver(remaining_processes, [i \in Indices |-> processes[i].burst_time])

C11_IterationProgress ==
    (pc = "run" /\ remaining_processes # <<>>) =>
        /\ policy \in NonPreemptive =>
              /\ Len(completed_processes') = Len(completed_processes) + 1
              /\ Len(remaining_processes') = Len(remaining_processes) - 1
        /\ policy = "SRTF" =>
              /\ Len(completed_processes') = Len(completed_processes) + 1
              /\ Len(remaining_processes') < Len(remaining_processes)
        /\ policy = "RoundRobin" =>
              /\ RemainingService' < RemainingService
              /\ RemainingService' >= 0
              /\ \A k \in 1..Len(remaining_processes') :
                    processes'[remaining_processes'[k]].burst_time > 0

C11_Terminates ==
    /\ <>(remaining_processes = <<>> /\ pc # "run")
    /\ [][C11_IterationProgress]_vars

C11_Witness ==
    /\ policy = "RoundRobin" /\ pc = "done"
    /\ Len(completed_processes) = 2
    /\ \A i \in Indices : Len(rendered[i]) >= 2

\* C12: invalid input (a negative arrival time, a non-positive service
\* time, a non-positive quantum for RoundRobin, a job without priority for
\* Priority) is rejected as a whole: run() never returns timings, no job's
\* start or completion time is set and the completed sequence stays empty.
C12_InvalidInputRejected ==
    Malformed(policy, input, time_quantum) =>
        /\ pc \notin {"done", "reported"}
        /\ completed_processes = <<>>
        /\ \A i \in Indices :
              processes[i].start_time = None /\ processes[i].completion_time = None

\* C13: the metrics functions, called on an empty completed sequence, signal
\* an explicit empty-input condition; no division by zero is performed.
C13_NoDivisionByZero ==
    (Finished /\ completed_processes = <<>>) => pc # "ZeroDivisionError"

\* C15: SRTF bookkeeping.  The job selected is one minimising (current
\* remaining time, arrival time) among the remaining jobs; it runs for its
\* full remaining time d from max(clock, arrival) and is appended.  Every
\* other remaining job with arrival <= the new clock loses exactly d, every
\* job with arrival > the new clock keeps its remaining time, and a job whose
\* remaining time thereby becomes <= 0 leaves the remaining set without
\* being appended and without a start or completion time.
C15_BulkSubtraction ==
    (policy = "SRTF" /\ pc = "run" /\ remaining_processes # <<>>) =>
        /\ Appends
        /\ LET p == Appended
               d == processes[p].burst_time
               t == Max(current_time, processes[p].arrival_time)
               c == t + d
           IN  /\ InSeq(remaining_processes, p)
               /\ \A k \in 1..Len(remaining_processes) :
                     LET r == processes[remaining_processes[k]]
                     IN  \/ d < r.burst_time
                         \/ d = r.burst_time
                              /\ processes[p].arrival_time <= r.arrival_time
               /\ current_time' = c
               /\ processes'[p] = [processes[p] EXCEPT !.start_time = Some(t),
                                                       !.completion_time = Some(c)]
               /\ ~InSeq(remaining_processes', p)
               /\ \A i \in Indices \ {p} :
                     IF InSeq(remaining_processes, i)
                     THEN /\ processes'[i].burst_time =
                                 IF processes[i].arrival_time <= c
                                 THEN processes[i].burst_time - d
                                 ELSE processes[i].burst_time
                          /\ InSeq(remaining_processes', i)
                                 <=> processes'[i].burst_time > 0
                          /\ ~InSeq(completed_processes', i)
                          /\ processes'[i].start_time = None
                          /\ processes'[i].completion_time = None
                     ELSE processes'[i] = processes[i]

C15_DroppedNeverTimed ==
    policy = "SRTF" =>
        \A i \in Indices :
            ~InSeq(completed_processes, i) =>
                processes[i].start_time = None /\ processes[i].completion_time = None

C15_SRTFBookkeeping ==
    /\ []C15_DroppedNeverTimed
    /\ [][C15_BulkSubtraction]_vars

C15_Witness ==
    /\ policy = "SRTF"
    /\ \E i \in Indices :
          /\ ~InSeq(remaining_processes, i) /\ ~InSeq(completed_processes, i)
          /\ processes[i].burst_time = 0
          /\ first_dispatch[i] = None
          /\ input[i].arrival_time = current_time

\* C16: in every run on well-formed input the clock starts at 0 and never
\* decreases, and the job dispatched by a step begins at max(clock, arrival):
\* the clock jumps to the arrival time only when that is greater than the
\* clock and is otherwise unchanged before service is rendered.
C16_DispatchStep ==
    /\ current_time' >= current_time
    /\ \A i \in Indices :
          rendered'[i] # rendered[i] =>
              LET a == processes[i].arrival_time
                  begin == IF a > current_time THEN a ELSE current_time
                  d == rendered'[i][Len(rendered'[i])]
              IN  /\ processes'[i].start_time = Some(begin)
                  /\ current_time' = begin + d
                  /\ d > 0

C16_ClockMonotone ==
    /\ current_time = 0
    /\ [](current_time >= 0)
    /\ [][C16_DispatchStep]_vars

C16_Witness ==
    /\ Len(completed_processes) = 2
    /\ LET first == processes[completed_processes[1]]
           second == processes[completed_processes[2]]
       IN  /\ second.arrival_time > Val(first.completion_time)
           /\ second.start_time = Some(second.arrival_time)
           /\ first.start_time = Some(0) /\ first.arrival_time = 0

\* C17: single-processor non-overlap: for FCFS, SJF, Priority and SRTF, of
\* any two consecutive jobs in the completed sequence the later one starts no
\* earlier than the earlier one completes.
C17_NoOverlap ==
    policy \in {"FCFS", "SJF", "Priority", "SRTF"} =>
        \A k \in 1..Len(completed_processes) - 1 :
            Val(processes[completed_processes[k + 1]].start_time)
                >= Val(processes[completed_processes[k]].completion_time)

C17_Witness ==
    /\ policy = "SRTF" /\ pc = "done"
    /\ Len(completed_processes) = 2
    /\ processes[completed_processes[2]].start_time
          = processes[completed_processes[1]].completion_time
    /\ processes[completed_processes[2]].arrival_time
          < Val(processes[completed_processes[1]].completion_time)

\* C18: when the quantum is >= the service time of every input job,
\* RoundRobin.run yields the completed order and the start and completion
\* times of FCFS.run on a copy of the same input, and no job is requeued.
QuantumCoversAll ==
    \A i \in DOMAIN input : Val(time_quantum) >= input[i].burst_time

C18_RoundRobinAsFCFS ==
    /\ (policy = "FCFS" /\ Finished) =>
          /\ processes = FCFSRun(input, 1, 0)
          /\ completed_processes = [k \in 1..Len(input) |-> k]
    /\ (policy = "RoundRobin" /\ QuantumCoversAll) =>
          /\ \A i \in Indices : Len(rendered[i]) <= 1
          /\ Finished =>
                /\ completed_processes = [k \in 1..Len(input) |-> k]
                /\ \A i \in Indices :
                      /\ processes[i].start_time
                            = FCFSRun(input, 1, 0)[i].start_time
                      /\ processes[i].completion_time
                            = FCFSRun(input, 1, 0)[i].completion_time

C18_Witness ==
    /\ policy = "RoundRobin" /\ pc = "done" /\ QuantumCoversAll
    /\ Len(completed_processes) = 2
    /\ \E i \in Indices : input[i].burst_time = Val(time_quantum)
    /\ Val(processes[2].start_time) > input[2].arrival_time

\* C19: stable tie-breaking in SJF, Priority and SRTF: of two jobs not yet
\* dispatched that agree on both components of the selection key, the one
\* earlier in the caller's input list is dispatched first, and neither the
\* re-sort nor SRTF's filtering inverts the order of key-equal jobs.
SelectionKey(procs, i) ==
    IF policy = "Priority"
    THEN <<procs[i].priority, procs[i].arrival_time>>
    ELSE <<procs[i].burst_time, procs[i].arrival_time>>

C19_KeyEqualInInputOrder ==
    policy \in {"SJF", "Priority", "SRTF"} =>
        \A k, l \in 1..Len(remaining_processes) :
            (k < l /\ SelectionKey(processes, remaining_processes[k])
                        = SelectionKey(processes, remaining_processes[l]))
                => remaining_processes[k] < remaining_processes[l]

C19_TieStep ==
    (policy \in {"SJF", "Priority", "SRTF"} /\ Appends) =>
        \A k \in 1..Len(remaining_processes) :
            LET r == remaining_processes[k]
            IN  (r # Appended
                   /\ SelectionKey(processes, r) = SelectionKey(processes, Appended))
                    => Appended < r

====
